---- MODULE Spec2Model ----
(***************************************************************************)
(* Model of the profiling engine of program-runtime/src/profiling_state.rs *)
(* (ProfilingState: start, end, post_process, clear and the accessors).    *)
(*                                                                         *)
(* u64 values are modelled with WordBits bits instead of 64: every         *)
(* subtraction of the source is saturating and every addition is a plain   *)
(* `+=`, so the width only decides where an addition leaves the range.     *)
(***************************************************************************)
EXTENDS Integers, Sequences, FiniteSets, TLC

\* ------------------------------------------------------------------ bounds
\* Number of bits of the modelled u64.
WordBits == 16
\* Cap on next_sequence in Spec (sessions over two section names).
MaxEvents == 4
\* Cap on next_sequence in SpecNest (sessions over one section name).
MaxNestEvents == 6
\* Recorded events of a session of test_heap_tracking_enabled's calls.
MaxScenarioEvents == 4
\* Syscalls of a guest program's session, and the compute units it starts with.
MaxSyscalls == 4
ComputeBudget == 3

U64_MAX == 2^WordBits - 1
U64_MODULUS == 2^WordBits

\* What the host passes with a section name: its remaining compute budget, the
\* heap usage, and whether heap accounting is requested at this call site.
Reading(current_cu, heap_value, with_heap) ==
    [current_cu |-> current_cu, heap_value |-> heap_value, with_heap |-> with_heap]

Readings == {Reading(U64_MAX, 0, TRUE), Reading(1, 1, FALSE),
             Reading(0, U64_MAX, TRUE)}

\* Section names of Spec and of SpecNest.
Ids == {"a", "b"}
NestIds == {"a"}

\* ------------------------------------------------------------- data model
\* Option<T>: None is the empty sequence, Some(v) the one-element sequence.
None == <<>>
Some(v) == <<v>>
is_some(o) == Len(o) = 1
unwrap(o) == o[1]

ActiveEntry(id, start_cu, start_sequence, start_heap) ==
    [id |-> id, start_cu |-> start_cu, start_sequence |-> start_sequence,
     start_heap |-> start_heap]

HeapMetrics(start_heap, end_heap, total_heap, net_heap, remaining_heap) ==
    [start_heap |-> start_heap, end_heap |-> end_heap, total_heap |-> total_heap,
     net_heap |-> net_heap, remaining_heap |-> remaining_heap]

CompletedEntry(id, start_cu, end_cu, start_sequence, end_sequence, total_cu, net_cu, remaining_cu, heap) ==
    [id |-> id, start_cu |-> start_cu, end_cu |-> end_cu,
     start_sequence |-> start_sequence, end_sequence |-> end_sequence,
     total_cu |-> total_cu, net_cu |-> net_cu, remaining_cu |-> remaining_cu,
     heap |-> heap]

\* Heap capacity embedded in the remaining_heap calculation.
HEAP_CAPACITY == 32000

\* ------------------------------------------------------------- arithmetic
\* Faulty variant of saturating_sub: u64::wrapping_sub.
wrapping_sub(a, b) == (a - b + U64_MODULUS) % U64_MODULUS

\* u64::saturating_sub
saturating_sub(a, b) == IF a >= b THEN a - b ELSE 0

\* The result of `a += b` on u64 when the addition is not checked.
wrapping_add(a, b) == (a + b) % U64_MODULUS

\* `a += b` leaves the u64 range.
add_overflows(a, b) == a + b > U64_MAX

VARIABLES
    active_stack,     \* Vec<ActiveEntry>, top of the stack is the last element
    completed,        \* Vec<CompletedEntry>, in order of completion
    next_sequence,    \* usize
    overflow_checks,  \* the build: TRUE when `+` panics on overflow, FALSE when it wraps
    panicked,         \* a panic has unwound out of the engine
    last,             \* the last call made and what it returned
    history,          \* the events recorded since the last clear, with their arguments
    host              \* the invoke context around the engine, as the syscalls see it

\* The engine and the build it runs in.
engine_vars == <<active_stack, completed, next_sequence, overflow_checks, panicked,
                 last, history>>

vars == <<active_stack, completed, next_sequence, overflow_checks, panicked, last,
          history, host>>

Ok == [ok |-> TRUE, id |-> ""]
\* Err(format!("No active profiling section found for ID: {}", id))
Err(id) == [ok |-> FALSE, id |-> id]

\* A call of the engine, what it returned and how many entries it dropped.
Call(op, id, result, dropped) ==
    [op |-> op, id |-> id, result |-> result, dropped |-> dropped]

NoCall == Call("new", "", Ok, 0)

\* A recorded event (a start, or an end that found its section) with the
\* arguments of the call; its index in history is its sequence number plus one.
Event(op, id, current_cu, heap_value, with_heap) ==
    [op |-> op, id |-> id, current_cu |-> current_cu, heap_value |-> heap_value,
     with_heap |-> with_heap]

\* What a syscall returns to the virtual machine: Ok(0), or an error that ends
\* the guest program.
SyscallOk == [ok |-> TRUE, error |-> ""]
SyscallErr(error) == [ok |-> FALSE, error |-> error]

\* The syscall made last: its name, the string it was given and whether
\* translate_string_and_do could read that string from the guest's memory.
Syscall(name, id, translated) == [name |-> name, id |-> id, translated |-> translated]

\* The invoke context: the compute units remaining in the meter, the lines of
\* the log collector, whether it holds a profiling state, the syscalls made so
\* far, the last of them and what it returned.
NewHost(profiling) ==
    [remaining |-> ComputeBudget, log |-> <<>>, profiling |-> profiling,
     calls |-> 0, syscall |-> Syscall("", "", TRUE), ret |-> SyscallOk]

Init ==
    /\ active_stack = <<>>
    /\ completed = <<>>
    /\ next_sequence = 0
    /\ overflow_checks \in BOOLEAN
    /\ panicked = FALSE
    /\ last = NoCall
    /\ history = <<>>
    /\ host = NewHost(TRUE)

\* ------------------------------------------------------------------ start
\* Faulty variant of start: the counter is advanced by two.
start_skipping_a_sequence(id, current_cu, heap_value, with_heap) ==
    /\ ~panicked
    /\ LET entry == ActiveEntry(id, current_cu, next_sequence,
                                IF with_heap THEN Some(heap_value) ELSE None)
       IN active_stack' = Append(active_stack, entry)
    /\ next_sequence' = next_sequence + 2
    /\ last' = Call("start", id, Ok, 0)
    /\ history' = Append(history, Event("start", id, current_cu, heap_value, with_heap))
    /\ UNCHANGED <<completed, overflow_checks, panicked>>

start(id, current_cu, heap_value, with_heap) ==
    /\ ~panicked
    /\ LET entry == ActiveEntry(id, current_cu, next_sequence,
                                IF with_heap THEN Some(heap_value) ELSE None)
       IN active_stack' = Append(active_stack, entry)
    /\ next_sequence' = next_sequence + 1
    /\ last' = Call("start", id, Ok, 0)
    /\ history' = Append(history, Event("start", id, current_cu, heap_value, with_heap))
    /\ UNCHANGED <<completed, overflow_checks, panicked>>

\* -------------------------------------------------------------------- end
\* Iterator::rposition: the index of the last element with that id, 0 for None.
RECURSIVE rposition_from(_, _, _)
rposition_from(stack, id, i) ==
    IF i = 0 THEN 0
    ELSE IF stack[i].id = id THEN i
    ELSE rposition_from(stack, id, i - 1)

\* Faulty variants of rposition: Iterator::position (the first element with
\* that id), and a look at the top of the stack only.
position(stack, id) ==
    IF \E i \in 1..Len(stack) : stack[i].id = id
    THEN CHOOSE i \in 1..Len(stack) :
             /\ stack[i].id = id
             /\ \A j \in 1..(i - 1) : stack[j].id /= id
    ELSE 0

top_position(stack, id) ==
    IF Len(stack) > 0 /\ stack[Len(stack)].id = id THEN Len(stack) ELSE 0

rposition(stack, id) == rposition_from(stack, id, Len(stack))

\* Vec::remove(pos): the elements after pos shift down by one.
remove(stack, pos) ==
    [i \in 1..(Len(stack) - 1) |-> IF i < pos THEN stack[i] ELSE stack[i + 1]]

\* Faulty variant of end_heap_metrics: the flag of the end call is not looked at.
end_heap_metrics_by_start_only(active_entry, heap_value, with_heap) ==
    IF is_some(active_entry.start_heap)
    THEN LET start_heap_value == unwrap(active_entry.start_heap)
         IN Some(HeapMetrics(start_heap_value, heap_value,
                             saturating_sub(heap_value, start_heap_value), 0,
                             saturating_sub(HEAP_CAPACITY, start_heap_value)))
    ELSE None

\* Faulty variant of end_heap_metrics: the capacity left is measured at the end call.
end_heap_metrics_remaining_at_end(active_entry, heap_value, with_heap) ==
    IF is_some(active_entry.start_heap) /\ with_heap
    THEN LET start_heap_value == unwrap(active_entry.start_heap)
         IN Some(HeapMetrics(start_heap_value, heap_value,
                             saturating_sub(heap_value, start_heap_value), 0,
                             saturating_sub(HEAP_CAPACITY, heap_value)))
    ELSE None

\* The heap metrics of the section that active_entry opened and this call closes.
end_heap_metrics(active_entry, heap_value, with_heap) ==
    IF is_some(active_entry.start_heap)
    THEN IF with_heap
         THEN LET start_heap_value == unwrap(active_entry.start_heap)
                  total_heap == saturating_sub(heap_value, start_heap_value)
                  remaining_heap == saturating_sub(HEAP_CAPACITY, start_heap_value)
              IN Some(HeapMetrics(start_heap_value, heap_value, total_heap, 0,
                                  remaining_heap))
         ELSE None
    ELSE None

\* Faulty variant of end_completed_entry: end_sequence is taken from the entry.
end_completed_entry_stamped_at_start(active_entry, current_cu, heap_value, with_heap, sequence) ==
    CompletedEntry(active_entry.id, active_entry.start_cu, current_cu,
                   active_entry.start_sequence, active_entry.start_sequence,
                   saturating_sub(active_entry.start_cu, current_cu), 0,
                   active_entry.start_cu,
                   end_heap_metrics(active_entry, heap_value, with_heap))

end_completed_entry(active_entry, current_cu, heap_value, with_heap, sequence) ==
    LET total_cu == saturating_sub(active_entry.start_cu, current_cu)
        heap == end_heap_metrics(active_entry, heap_value, with_heap)
    IN CompletedEntry(active_entry.id, active_entry.start_cu, current_cu,
                      active_entry.start_sequence, sequence, total_cu, 0,
                      active_entry.start_cu, heap)

\* Faulty variant of end: the completed entry is inserted at the head of the
\* list.
end_inserting_at_head(id, current_cu, heap_value, with_heap) ==
    /\ ~panicked
    /\ LET pos == rposition(active_stack, id) IN
       IF pos = 0
       THEN /\ last' = Call("end", id, Err(id), 0)
            /\ UNCHANGED <<active_stack, completed, next_sequence, history>>
       ELSE /\ active_stack' = remove(active_stack, pos)
            /\ completed' =
                   << end_completed_entry(active_stack[pos], current_cu,
                                          heap_value, with_heap, next_sequence) >>
                   \o completed
            /\ next_sequence' = next_sequence + 1
            /\ last' = Call("end", id, Ok, 0)
            /\ history' = Append(history,
                   Event("end", id, current_cu, heap_value, with_heap))
    /\ UNCHANGED <<overflow_checks, panicked>>

end(id, current_cu, heap_value, with_heap) ==
    /\ ~panicked
    /\ LET pos == rposition(active_stack, id) IN
       IF pos = 0
       THEN /\ last' = Call("end", id, Err(id), 0)
            /\ UNCHANGED <<active_stack, completed, next_sequence, history>>
       ELSE /\ active_stack' = remove(active_stack, pos)
            /\ completed' = Append(completed,
                   end_completed_entry(active_stack[pos], current_cu, heap_value,
                                       with_heap, next_sequence))
            /\ next_sequence' = next_sequence + 1
            /\ last' = Call("end", id, Ok, 0)
            /\ history' = Append(history,
                   Event("end", id, current_cu, heap_value, with_heap))
    /\ UNCHANGED <<overflow_checks, panicked>>

\* ----------------------------------------------------------- post_process
\* Faulty variant of is_child: `other` started while `entry` was open.
is_child_by_overlap(other, entry) ==
    /\ other.start_sequence > entry.start_sequence
    /\ other.start_sequence < entry.end_sequence

\* Faulty variant of is_child: every entry started after `entry` counts,
\* whenever it ended.
is_child_by_start(other, entry) == other.start_sequence > entry.start_sequence

\* `other` started after and ended before `entry`.
is_child(other, entry) ==
    /\ other.start_sequence > entry.start_sequence
    /\ other.end_sequence < entry.end_sequence

NoChildren == [children_cu |-> 0, children_heap |-> 0, overflow |-> FALSE]

\* Faulty variant of children_from: only the entries with no entry between
\* them and `entry` are added up.
RECURSIVE direct_children_from(_, _, _, _)
direct_children_from(comp, entry, j, acc) ==
    IF j > Len(comp) THEN acc
    ELSE LET other == comp[j]
             direct == /\ is_child(other, entry)
                       /\ ~\E k \in 1..Len(comp) :
                              is_child(comp[k], entry) /\ is_child(other, comp[k])
         IN
         IF direct
         THEN direct_children_from(comp, entry, j + 1,
                  [children_cu |-> wrapping_add(acc.children_cu, other.total_cu),
                   children_heap |->
                       IF is_some(other.heap)
                       THEN wrapping_add(acc.children_heap,
                                         unwrap(other.heap).total_heap)
                       ELSE acc.children_heap,
                   overflow |-> acc.overflow])
         ELSE direct_children_from(comp, entry, j + 1, acc)

\* The inner loop: `other` runs over comp[j..], acc holds children_cu and
\* children_heap as accumulated so far and whether an addition left the range.
RECURSIVE children_from(_, _, _, _)
children_from(comp, entry, j, acc) ==
    IF j > Len(comp) THEN acc
    ELSE LET other == comp[j] IN
         IF is_child(other, entry)
         THEN LET with_cu ==
                      [acc EXCEPT !.children_cu = wrapping_add(@, other.total_cu),
                                  !.overflow = @ \/ add_overflows(acc.children_cu,
                                                                  other.total_cu)]
                  with_heap ==
                      IF is_some(other.heap)
                      THEN [with_cu EXCEPT
                              !.children_heap =
                                  wrapping_add(@, unwrap(other.heap).total_heap),
                              !.overflow = @ \/ add_overflows(with_cu.children_heap,
                                                   unwrap(other.heap).total_heap)]
                      ELSE with_cu
              IN children_from(comp, entry, j + 1, with_heap)
         ELSE children_from(comp, entry, j + 1, acc)

\* Faulty variant of update_net: the children are subtracted from the stored
\* totals, and the nets are copies of those.
update_net_in_total(entry, children) ==
    LET net_cu == saturating_sub(entry.total_cu, children.children_cu) IN
    [entry EXCEPT
        !.net_cu = net_cu,
        !.total_cu = net_cu,
        !.heap = IF is_some(@)
                 THEN LET net_heap == saturating_sub(unwrap(entry.heap).total_heap,
                                                     children.children_heap)
                      IN Some([unwrap(@) EXCEPT !.net_heap = net_heap,
                                                !.total_heap = net_heap])
                 ELSE @]

\* Faulty variant of update_net: the net is also stored as the remaining
\* budget.
update_net_and_remaining(entry, children) ==
    [entry EXCEPT
        !.net_cu = saturating_sub(entry.total_cu, children.children_cu),
        !.remaining_cu = saturating_sub(entry.total_cu, children.children_cu),
        !.heap = IF is_some(@)
                 THEN Some([unwrap(@) EXCEPT
                         !.net_heap = saturating_sub(unwrap(entry.heap).total_heap,
                                                     children.children_heap)])
                 ELSE @]

\* The two updates at the end of the outer loop's body.
update_net(entry, children) ==
    [entry EXCEPT
        !.net_cu = saturating_sub(entry.total_cu, children.children_cu),
        !.heap = IF is_some(@)
                 THEN Some([unwrap(@) EXCEPT
                         !.net_heap = saturating_sub(unwrap(entry.heap).total_heap,
                                                     children.children_heap)])
                 ELSE @]

\* The outer loop from index i on: the completed list it leaves and whether it
\* panicked on the way (the entries before the panicking one are updated).
RECURSIVE post_process_from(_, _, _)
post_process_from(comp, i, checks) ==
    IF i > Len(comp) THEN [completed |-> comp, panicked |-> FALSE]
    ELSE LET children == children_from(comp, comp[i], 1, NoChildren) IN
         IF checks /\ children.overflow
         THEN [completed |-> comp, panicked |-> TRUE]
         ELSE post_process_from([comp EXCEPT ![i] = update_net(@, children)],
                                i + 1, checks)

post_process ==
    /\ ~panicked
    /\ LET run == post_process_from(completed, 1, overflow_checks) IN
       /\ completed' = run.completed
       /\ panicked' = run.panicked
    /\ last' = Call("post_process", "", Ok, 0)
    /\ UNCHANGED <<active_stack, next_sequence, overflow_checks, history>>

\* ------------------------------------------------------------------ clear
\* Faulty variant of clear: the sequence counter is not reset.
clear_keeping_sequence ==
    /\ ~panicked
    /\ active_stack' = <<>>
    /\ completed' = <<>>
    /\ last' = Call("clear", "", Ok, Len(active_stack) + Len(completed))
    /\ history' = <<>>
    /\ UNCHANGED <<next_sequence, overflow_checks, panicked>>

clear ==
    /\ ~panicked
    /\ active_stack' = <<>>
    /\ completed' = <<>>
    /\ next_sequence' = 0
    /\ last' = Call("clear", "", Ok, Len(active_stack) + Len(completed))
    /\ history' = <<>>
    /\ UNCHANGED <<overflow_checks, panicked>>

\* -------------------------------------------------------------- accessors
get_completed == completed
get_active == active_stack

\* Faulty variant of has_active: it reports whether any section was recorded.
has_recorded == active_stack /= <<>> \/ completed /= <<>>

has_active == active_stack /= <<>>
completed_count == Len(completed)

\* ---------------------------------------------------------- specification
\* next_sequence is a usize and cannot reach its maximum in a session; the
\* model stops recording events at a cap.
can_record(cap) == next_sequence < cap

\* The host's calls of post_process and clear.
do_post_process == post_process /\ UNCHANGED host
do_clear == clear /\ UNCHANGED host

\* Sessions over two section names, up to MaxEvents recorded events.
do_start ==
    /\ can_record(MaxEvents)
    /\ \E id \in Ids, r \in Readings :
          start(id, r.current_cu, r.heap_value, r.with_heap)
    /\ UNCHANGED host

do_end ==
    \E id \in Ids, r \in Readings :
       /\ can_record(MaxEvents) \/ rposition(active_stack, id) = 0
       /\ end(id, r.current_cu, r.heap_value, r.with_heap)
       /\ UNCHANGED host

Next == do_start \/ do_end \/ do_post_process \/ do_clear

Spec == Init /\ [][Next]_vars

\* Sessions over one section name (every end closes the top of the stack), up
\* to MaxNestEvents recorded events.
nest_start ==
    /\ can_record(MaxNestEvents)
    /\ \E id \in NestIds, r \in Readings :
          start(id, r.current_cu, r.heap_value, r.with_heap)
    /\ UNCHANGED host

nest_end ==
    \E id \in NestIds, r \in Readings :
       /\ can_record(MaxNestEvents) \/ rposition(active_stack, id) = 0
       /\ end(id, r.current_cu, r.heap_value, r.with_heap)
       /\ UNCHANGED host

NestNext == nest_start \/ nest_end \/ do_post_process \/ do_clear

SpecNest == Init /\ [][NestNext]_vars

\* ----------------------------------------------------------- host boundary
\* The heap_value and with_heap registers a guest passes to the profiling
\* syscalls (both u64), and the lengths of the messages it logs.
HostArgs == {[heap_value |-> 0, with_heap |-> 0], [heap_value |-> 1, with_heap |-> 2]}
LogLens == {0, 2}

\* invoke_context.get_compute_budget().syscall_base_cost, on the scale of
\* ComputeBudget.
SyscallBaseCost == 1

\* The meter after `amount` units are charged, and whether the charge was more
\* than it held.
consume_compute_meter(remaining, amount) ==
    [remaining |-> saturating_sub(remaining, amount), exceeded |-> remaining < amount]

\* Lines of the log collector.
ProgramLog(len) == [kind |-> "Program log", text |-> len]
\* ic_logger_msg!(.., "Profiling error: {}", err)
ProfilingError(err) == [kind |-> "Profiling error", text |-> err.id]

\* The virtual machine makes a syscall while the guest program runs.
can_call == host.ret.ok /\ host.calls < MaxSyscalls /\ ~panicked

\* The host record once a syscall was entered.
called(name, id, translated) ==
    [host EXCEPT !.calls = @ + 1,
                 !.syscall = Syscall(name, IF translated THEN id ELSE "", translated)]

\* sol_log_: charged before the message is read.
SyscallLog ==
    /\ can_call
    /\ \E len \in LogLens, translated \in BOOLEAN :
          LET cost == IF SyscallBaseCost > len THEN SyscallBaseCost ELSE len
              meter == consume_compute_meter(host.remaining, cost)
              entered == [called("sol_log_", "", translated /\ ~meter.exceeded)
                             EXCEPT !.remaining = meter.remaining]
          IN host' = IF meter.exceeded
                     THEN [entered EXCEPT !.ret = SyscallErr("ComputationalBudgetExceeded")]
                     ELSE IF ~translated
                     THEN [entered EXCEPT !.ret = SyscallErr("AccessViolation")]
                     ELSE [entered EXCEPT !.log = Append(@, ProgramLog(len)),
                                          !.ret = SyscallOk]
    /\ UNCHANGED engine_vars

\* sol_log_compute_units_start
SyscallLogComputeUnitsStart ==
    /\ can_call
    /\ \E id \in Ids, a \in HostArgs, translated \in BOOLEAN :
          LET current_cu == host.remaining
              entered == called("sol_log_compute_units_start", id, translated)
          IN IF ~translated
             THEN /\ host' = [entered EXCEPT !.ret = SyscallErr("AccessViolation")]
                  /\ UNCHANGED engine_vars
             ELSE /\ IF host.profiling
                     THEN start(id, current_cu, a.heap_value, a.with_heap /= 0)
                     ELSE UNCHANGED engine_vars
                  /\ host' = [entered EXCEPT !.ret = SyscallOk]

\* Faulty variant of SyscallLogComputeUnitsEnd: the engine's error is returned
\* to the virtual machine with `?` instead of being logged.
SyscallLogComputeUnitsEnd_propagating_the_error ==
    /\ can_call
    /\ \E id \in Ids, a \in HostArgs, translated \in BOOLEAN :
          LET current_cu == host.remaining
              entered == called("sol_log_compute_units_end", id, translated)
          IN IF ~translated
             THEN /\ host' = [entered EXCEPT !.ret = SyscallErr("AccessViolation")]
                  /\ UNCHANGED engine_vars
             ELSE IF host.profiling
             THEN /\ end(id, current_cu, a.heap_value, a.with_heap /= 0)
                  /\ host' = IF last'.result.ok
                             THEN [entered EXCEPT !.ret = SyscallOk]
                             ELSE [entered EXCEPT !.ret = SyscallErr("UnmatchedEnd")]
             ELSE /\ UNCHANGED engine_vars
                  /\ host' = [entered EXCEPT !.ret = SyscallOk]

\* sol_log_compute_units_end
SyscallLogComputeUnitsEnd ==
    /\ can_call
    /\ \E id \in Ids, a \in HostArgs, translated \in BOOLEAN :
          LET current_cu == host.remaining
              entered == called("sol_log_compute_units_end", id, translated)
          IN IF ~translated
             THEN /\ host' = [entered EXCEPT !.ret = SyscallErr("AccessViolation")]
                  /\ UNCHANGED engine_vars
             ELSE IF host.profiling
             THEN /\ end(id, current_cu, a.heap_value, a.with_heap /= 0)
                  /\ host' = IF last'.result.ok
                             THEN [entered EXCEPT !.ret = SyscallOk]
                             ELSE [entered EXCEPT
                                      !.log = Append(@, ProfilingError(last'.result)),
                                      !.ret = SyscallOk]
             ELSE /\ UNCHANGED engine_vars
                  /\ host' = [entered EXCEPT !.ret = SyscallOk]

\* A guest program's session seen from the virtual machine, with or without a
\* profiling state in the invoke context.
HostInit ==
    /\ active_stack = <<>>
    /\ completed = <<>>
    /\ next_sequence = 0
    /\ overflow_checks \in BOOLEAN
    /\ panicked = FALSE
    /\ last = NoCall
    /\ history = <<>>
    /\ host \in {NewHost(profiling) : profiling \in BOOLEAN}

HostNext == SyscallLog \/ SyscallLogComputeUnitsStart \/ SyscallLogComputeUnitsEnd

SpecHost == HostInit /\ [][HostNext]_vars

\* ------------------------------------------------------------- properties
\* The step is a call of end that returned Ok / that returned an error.
EndOkStep == last'.op = "end" /\ last'.result.ok
EndErrStep == last'.op = "end" /\ ~last'.result.ok

\* C1: a successful end(id) removes exactly the active entry with the largest
\* start_sequence among the active entries with that id, and moves it to the
\* completed list; every other active entry, above or below it, stays on the
\* stack unchanged and in the same relative order.
C1_EndRemovesMostRecentMatch ==
    [][EndOkStep =>
        \E p \in 1..Len(active_stack) :
            /\ active_stack[p].id = last'.id
            /\ \A q \in 1..Len(active_stack) :
                   active_stack[q].id = last'.id =>
                       active_stack[q].start_sequence <= active_stack[p].start_sequence
            /\ active_stack' = SelectSeq(active_stack, LAMBDA e : e /= active_stack[p])
            /\ Len(active_stack') = Len(active_stack) - 1
            /\ completed'[Len(completed')].start_sequence =
                   active_stack[p].start_sequence
    ]_vars

\* A successful end has left below it an older entry with the same id and
\* above it an entry that was opened later.
C1_Witness ==
    /\ last.op = "end" /\ last.result.ok
    /\ \E i, j \in 1..Len(active_stack) :
          /\ active_stack[i].id = last.id
          /\ active_stack[i].start_sequence <
                 completed[Len(completed)].start_sequence
          /\ active_stack[j].start_sequence >
                 completed[Len(completed)].start_sequence

\* C2: end(id) returns an error, which carries the id, exactly when no active
\* entry has that id, and then the active stack, the completed list and
\* next_sequence are what they were before the call.
C2_UnmatchedEndChangesNothing ==
    [][last'.op = "end" =>
        /\ ~last'.result.ok <=>
               ~(\E q \in 1..Len(active_stack) : active_stack[q].id = last'.id)
        /\ ~last'.result.ok =>
               /\ last'.result.id = last'.id
               /\ active_stack' = active_stack
               /\ completed' = completed
               /\ next_sequence' = next_sequence
    ]_vars

\* An end has failed while another section is open and one is completed.
C2_Witness ==
    /\ last.op = "end" /\ ~last.result.ok
    /\ active_stack /= <<>>
    /\ completed /= <<>>

\* The last call was post_process and it returned.
PostProcessReturned == last.op = "post_process" /\ ~panicked

\* The completed entries whose sequence interval lies strictly inside that of
\* completed[i]; those with no entry between them and completed[i]; the rest.
Contained(i) ==
    {j \in 1..Len(completed) :
        /\ completed[i].start_sequence < completed[j].start_sequence
        /\ completed[j].end_sequence < completed[i].end_sequence}
DirectChildren(i) == {j \in Contained(i) : ~\E k \in Contained(i) : j \in Contained(k)}
DeeperDescendants(i) == Contained(i) \ DirectChildren(i)

RECURSIVE SumTotalCu(_)
SumTotalCu(S) ==
    IF S = {} THEN 0
    ELSE LET j == CHOOSE k \in S : TRUE
         IN completed[j].total_cu + SumTotalCu(S \ {j})

ClampAtZero(x) == IF x > 0 THEN x ELSE 0

\* C3: after post_process, net_cu of every completed entry is its total_cu
\* minus the sum of total_cu over all completed entries strictly contained in
\* it, clamped at zero.
C3_NetCuIsTotalMinusContained ==
    PostProcessReturned =>
        \A i \in 1..Len(completed) :
            completed[i].net_cu =
                ClampAtZero(completed[i].total_cu - SumTotalCu(Contained(i)))

C5_NoContainedEntryNetIsTotal ==
    PostProcessReturned =>
        \A i \in 1..Len(completed) :
            Contained(i) = {} =>
                /\ completed[i].net_cu = completed[i].total_cu
                /\ is_some(completed[i].heap) =>
                       unwrap(completed[i].heap).net_heap =
                           unwrap(completed[i].heap).total_heap

\* post_process has run over two sections that overlap without nesting (start
\* A, start B, end A, end B), both with heap metrics and totals above zero.
C5_Witness ==
    /\ PostProcessReturned
    /\ \E i, j \in 1..Len(completed) :
          /\ completed[i].start_sequence < completed[j].start_sequence
          /\ completed[j].start_sequence < completed[i].end_sequence
          /\ completed[i].end_sequence < completed[j].end_sequence
          /\ completed[i].total_cu > 0 /\ completed[j].total_cu > 0
          /\ is_some(completed[i].heap) /\ is_some(completed[j].heap)
          /\ unwrap(completed[i].heap).total_heap > 0
          /\ unwrap(completed[j].heap).total_heap > 0

\* The events of history that opened and closed completed[i].
Opened(i) == history[completed[i].start_sequence + 1]
Closed(i) == history[completed[i].end_sequence + 1]

\* C6: a completed entry has heap metrics if and only if with_heap was true
\* at the start call that opened it and at the end call that closed it; its CU
\* fields are filled from the two calls in every case.
C6_HeapMetricsIffRequestedAtBothEnds ==
    \A i \in 1..Len(completed) :
        /\ Opened(i).op = "start" /\ Closed(i).op = "end"
        /\ is_some(completed[i].heap) <=> (Opened(i).with_heap /\ Closed(i).with_heap)
        /\ completed[i].start_cu = Opened(i).current_cu
        /\ completed[i].remaining_cu = Opened(i).current_cu
        /\ completed[i].end_cu = Closed(i).current_cu
        /\ completed[i].total_cu =
               ClampAtZero(Opened(i).current_cu - Closed(i).current_cu)

\* Two sections are completed, one with heap accounting requested at its
\* start only and one with heap accounting requested at its end only.
C6_Witness ==
    \E i, j \in 1..Len(completed) :
        /\ Opened(i).with_heap /\ ~Closed(i).with_heap
        /\ ~Opened(j).with_heap /\ Closed(j).with_heap
        /\ completed[i].heap = None /\ completed[j].heap = None

\* The sequence numbers held by the active and the completed entries.
Stamps ==
    {active_stack[i].start_sequence : i \in 1..Len(active_stack)}
        \cup {completed[i].start_sequence : i \in 1..Len(completed)}
        \cup {completed[i].end_sequence : i \in 1..Len(completed)}

\* C7: every start and every successful end is stamped with the current
\* next_sequence and then increases it by exactly one; a failed end and
\* post_process leave it unchanged; the start_sequence and end_sequence values
\* of the active and completed entries are pairwise distinct and
\* next_sequence = |active| + 2 * |completed|.
C7_SequenceCountsRecordedEvents ==
    /\ [](/\ Cardinality(Stamps) = Len(active_stack) + 2 * Len(completed)
          /\ next_sequence = Len(active_stack) + 2 * Len(completed))
    /\ [][
           /\ last'.op = "start" =>
                  /\ active_stack'[Len(active_stack')].start_sequence = next_sequence
                  /\ next_sequence' = next_sequence + 1
           /\ EndOkStep =>
                  /\ completed'[Len(completed')].end_sequence = next_sequence
                  /\ next_sequence' = next_sequence + 1
           /\ (EndErrStep \/ last'.op = "post_process") =>
                  next_sequence' = next_sequence
       ]_vars

\* post_process has run with a section open and a section completed.
C7_Witness ==
    /\ PostProcessReturned
    /\ active_stack /= <<>>
    /\ completed /= <<>>

\* C8: every completed entry has start_sequence < end_sequence.
C8_StartBeforeEnd ==
    \A i \in 1..Len(completed) :
        completed[i].start_sequence < completed[i].end_sequence

\* A section is completed that was closed after a later event than its start.
C8_Witness ==
    \E i \in 1..Len(completed) :
        completed[i].end_sequence > completed[i].start_sequence + 1

\* C9: clear empties the active stack and the completed list and sets
\* next_sequence to 0; the first start after it gets start_sequence 0 and is
\* the only entry there is; no other operation removes or replaces a
\* completed entry or lowers next_sequence.
C9_OnlyClearResets ==
    [][/\ last'.op = "clear" =>
           /\ active_stack' = <<>>
           /\ completed' = <<>>
           /\ next_sequence' = 0
       /\ (last.op = "clear" /\ last'.op = "start") =>
           /\ Len(active_stack') = 1
           /\ active_stack'[1].start_sequence = 0
           /\ completed' = <<>>
       /\ last'.op /= "clear" =>
           /\ next_sequence' >= next_sequence
           /\ Len(completed') >= Len(completed)
           /\ \A i \in 1..Len(completed) :
                  /\ completed'[i].id = completed[i].id
                  /\ completed'[i].start_sequence = completed[i].start_sequence
                  /\ completed'[i].end_sequence = completed[i].end_sequence
    ]_vars

\* clear has just dropped at least one open and one completed section.
C9_Witness ==
    /\ last.op = "clear"
    /\ last.dropped >= 2
    /\ active_stack = <<>> /\ completed = <<>> /\ next_sequence = 0

\* C10: a post_process that follows a post_process directly leaves every
\* completed entry, its net_cu and net_heap included, as the first one left it.
C10_PostProcessIdempotent ==
    [][(last.op = "post_process" /\ last'.op = "post_process") =>
           /\ completed' = completed
           /\ panicked' = panicked
    ]_vars

\* post_process has run over a section with heap metrics that contains
\* another, and has left it a net_cu and a net_heap between zero and its total.
C10_Witness ==
    /\ PostProcessReturned
    /\ \E i \in 1..Len(completed) :
          /\ Contained(i) /= {}
          /\ 0 < completed[i].net_cu
          /\ completed[i].net_cu < completed[i].total_cu
          /\ is_some(completed[i].heap)

\* C11: the total_cu of a completed entry is its start_cu minus the budget
\* passed to the end call that closed it when that budget is at most start_cu,
\* and 0 when it is larger; the end has succeeded in both cases and total_cu
\* is a u64 no larger than start_cu.
C11_TotalCuSaturates ==
    \A i \in 1..Len(completed) :
        LET budget == Closed(i).current_cu IN
        /\ budget <= completed[i].start_cu =>
               completed[i].total_cu + budget = completed[i].start_cu
        /\ budget > completed[i].start_cu => completed[i].total_cu = 0
        /\ completed[i].total_cu \in 0..completed[i].start_cu

\* One section was closed with a budget above its start_cu and one with a
\* budget below it.
C11_Witness ==
    \E i, j \in 1..Len(completed) :
        /\ Closed(i).current_cu > completed[i].start_cu
        /\ Closed(j).current_cu < completed[j].start_cu
        /\ completed[j].total_cu > 0

ScenarioIds == {"outer", "inner"}
ScenarioReadings ==
    {Reading(5000, 1000, TRUE), Reading(4500, 1200, TRUE),
     Reading(4000, 1400, TRUE), Reading(3500, 1600, TRUE)}

\* Sessions that make the test's calls in any order, up to MaxScenarioEvents
\* recorded events.
scenario_start ==
    /\ can_record(MaxScenarioEvents)
    /\ \E id \in ScenarioIds, r \in ScenarioReadings :
          start(id, r.current_cu, r.heap_value, r.with_heap)
    /\ UNCHANGED host

scenario_end ==
    \E id \in ScenarioIds, r \in ScenarioReadings :
       /\ can_record(MaxScenarioEvents) \/ rposition(active_stack, id) = 0
       /\ end(id, r.current_cu, r.heap_value, r.with_heap)
       /\ UNCHANGED host

ScenarioNext == scenario_start \/ scenario_end \/ do_post_process \/ do_clear

SpecScenario == Init /\ [][ScenarioNext]_vars

\* The recorded events are exactly the heap scenario's four calls, made on a
\* fresh engine, and post_process has just returned.
HeapScenarioRan ==
    /\ history = << Event("start", "outer", 5000, 1000, TRUE),
                    Event("start", "inner", 4500, 1200, TRUE),
                    Event("end", "inner", 4000, 1400, TRUE),
                    Event("end", "outer", 3500, 1600, TRUE) >>
    /\ PostProcessReturned

\* C13: after the heap scenario and post_process, the inner entry's heap
\* metrics are start 1200, end 1400, total 200, net 200, remaining 1400 and the
\* outer entry's are start 1000, end 1600, total 600, net 400, remaining 1600.
C13_HeapScenarioRemainingIsEndHeap ==
    HeapScenarioRan =>
        /\ Len(completed) = 2
        /\ completed[1].id = "inner"
        /\ completed[1].heap = Some(HeapMetrics(1200, 1400, 200, 200, 1400))
        /\ completed[2].id = "outer"
        /\ completed[2].heap = Some(HeapMetrics(1000, 1600, 600, 400, 1600))

\* The sum of total_heap over the entries of S that have heap metrics.
RECURSIVE SumTotalHeap(_)
SumTotalHeap(S) ==
    IF S = {} THEN 0
    ELSE LET j == CHOOSE k \in S : TRUE
         IN (IF is_some(completed[j].heap)
             THEN unwrap(completed[j].heap).total_heap ELSE 0)
            + SumTotalHeap(S \ {j})

\* C14: post_process never panics, and when it has returned every entry's
\* net_cu is its total_cu minus the true (unbounded) sum of the contained
\* entries' total_cu, clamped at zero, and likewise net_heap for the entries
\* with heap metrics, also when that sum is above the u64 range.
C14_PostProcessTotalWithoutWraparound ==
    /\ ~panicked
    /\ PostProcessReturned =>
           \A i \in 1..Len(completed) :
               /\ completed[i].net_cu =
                      ClampAtZero(completed[i].total_cu - SumTotalCu(Contained(i)))
               /\ is_some(completed[i].heap) =>
                      unwrap(completed[i].heap).net_heap =
                          ClampAtZero(unwrap(completed[i].heap).total_heap
                                      - SumTotalHeap(Contained(i)))

\* C15: every successful end leaves the entries completed before where they
\* were and puts its entry after them, and end_sequence is strictly increasing
\* along the completed list in every state.
C15_CompletedOrderedByCompletion ==
    [][/\ EndOkStep =>
           /\ Len(completed') = Len(completed) + 1
           /\ SubSeq(completed', 1, Len(completed)) = completed
           /\ completed'[Len(completed')].end_sequence = next_sequence
       /\ \A i, j \in 1..Len(completed') :
              i < j => completed'[i].end_sequence < completed'[j].end_sequence
    ]_vars

\* start_sequence is not increasing along the list: a parent stands after a
\* child it contains.
C15_Witness ==
    \E i, j \in 1..Len(completed) :
        /\ i < j
        /\ i \in Contained(j)
        /\ completed[i].start_sequence > completed[j].start_sequence

\* The starts and the successful ends since the last clear, as positions in
\* the record of events, and the starts no successful end has closed.
StartsSinceClear == {k \in 1..Len(history) : history[k].op = "start"}
EndsSinceClear == {k \in 1..Len(history) : history[k].op = "end"}
UnclosedStarts ==
    {k \in StartsSinceClear :
        ~\E i \in 1..Len(completed) : completed[i].start_sequence = k - 1}

\* C16: has_active() is true exactly when some start since the last clear has
\* not been closed by a successful end, completed_count() is the number of
\* successful ends since the last clear, and the number of starts since the
\* last clear is |active| + |completed|.
C16_AccessorsCountSections ==
    /\ has_active <=> UnclosedStarts /= {}
    /\ completed_count = Cardinality(EndsSinceClear)
    /\ Cardinality(StartsSinceClear) = Len(get_active) + Len(get_completed)

\* One section is closed and two are open, and an end has just failed.
C16_Witness ==
    /\ has_active
    /\ completed_count = 1
    /\ Cardinality(UnclosedStarts) = 2
    /\ last.op = "end" /\ ~last.result.ok

\* Steps of the profiling syscalls: any of the two, and those that read their
\* id and reach a profiling state.
ProfilingSyscallStep ==
    /\ host'.calls = host.calls + 1
    /\ host'.syscall.name \in {"sol_log_compute_units_start",
                               "sol_log_compute_units_end"}
StartSyscallStep ==
    /\ ProfilingSyscallStep
    /\ host'.syscall.name = "sol_log_compute_units_start"
    /\ host'.syscall.translated /\ host.profiling
EndSyscallStep ==
    /\ ProfilingSyscallStep
    /\ host'.syscall.name = "sol_log_compute_units_end"
    /\ host'.syscall.translated /\ host.profiling
UnmatchedEndSyscallStep ==
    EndSyscallStep /\ rposition(active_stack, host'.syscall.id) = 0

\* C17: an end syscall whose id matches no open section appends the engine's
\* error to the log, returns Ok(0) and leaves the engine as it was; no start
\* or end syscall changes the remaining compute units, and whatever was
\* logged before, a start syscall pushes its section with the remaining units
\* as start_cu and a matched end syscall completes its section with them as
\* end_cu, both returning Ok(0).
C17_UnmatchedEndIsLoggedNotFatal ==
    [][/\ UnmatchedEndSyscallStep =>
           /\ host'.ret = SyscallOk
           /\ host'.log = Append(host.log, ProfilingError(Err(host'.syscall.id)))
           /\ active_stack' = active_stack
           /\ completed' = completed
           /\ next_sequence' = next_sequence
       /\ ProfilingSyscallStep => host'.remaining = host.remaining
       /\ StartSyscallStep =>
           /\ host'.ret = SyscallOk
           /\ host'.log = host.log
           /\ Len(active_stack') = Len(active_stack) + 1
           /\ active_stack'[Len(active_stack')].id = host'.syscall.id
           /\ active_stack'[Len(active_stack')].start_cu = host.remaining
       /\ (EndSyscallStep /\ ~UnmatchedEndSyscallStep) =>
           /\ host'.ret = SyscallOk
           /\ host'.log = host.log
           /\ Len(completed') = Len(completed) + 1
           /\ completed'[Len(completed')].id = host'.syscall.id
           /\ completed'[Len(completed')].end_cu = host.remaining
    ]_vars

\* After an unmatched end was logged, a section was opened, the guest spent
\* compute units and the section was closed by an end syscall that returned
\* Ok(0).
C17_Witness ==
    /\ host.ret = SyscallOk
    /\ host.syscall.name = "sol_log_compute_units_end"
    /\ host.log /= <<>> /\ host.log[1].kind = "Profiling error"
    /\ last.op = "end" /\ last.result.ok
    /\ Len(completed) = 1
    /\ completed[1].start_sequence = 0
    /\ completed[1].total_cu > 0

\* A completed entry without what post_process fills in.
WithoutNet(entry) ==
    [entry EXCEPT !.net_cu = 0,
                  !.heap = IF is_some(@)
                           THEN Some([unwrap(@) EXCEPT !.net_heap = 0])
                           ELSE @]

\* C18: a start, an end (successful or failed) and a post_process leave every
\* field other than net_cu and net_heap of every entry already in the
\* completed list as it was, a start and an end leave those two as well, and a
\* post_process leaves the length of the completed list, the active stack and
\* next_sequence as they were.
C18_CompletedEntriesImmutableExceptNet ==
    [][/\ last'.op \in {"start", "end", "post_process"} =>
           /\ Len(completed') >= Len(completed)
           /\ \A i \in 1..Len(completed) :
                  WithoutNet(completed'[i]) = WithoutNet(completed[i])
       /\ last'.op \in {"start", "end"} =>
           \A i \in 1..Len(completed) : completed'[i] = completed[i]
       /\ last'.op = "post_process" =>
           /\ Len(completed') = Len(completed)
           /\ active_stack' = active_stack
           /\ next_sequence' = next_sequence
    ]_vars

\* post_process has returned with a section still open, having set a net_cu
\* and a net_heap strictly between zero and the totals.
C18_Witness ==
    /\ PostProcessReturned
    /\ active_stack /= <<>>
    /\ \E i \in 1..Len(completed) :
          /\ completed[i].net_cu > 0
          /\ completed[i].net_cu < completed[i].total_cu
    /\ \E i \in 1..Len(completed) :
          /\ is_some(completed[i].heap)
          /\ unwrap(completed[i].heap).net_heap > 0

\* C19: when post_process returns, every completed entry P with heap metrics
\* has net_heap = max(0, total_heap(P) - the sum of total_heap over the
\* entries strictly contained in P that have heap metrics); where P contains
\* an entry without heap metrics, that entry's total_cu is among those
\* subtracted in net_cu(P); and P has heap metrics after post_process exactly
\* when it had them before.
C19_NetHeapSubtractsContainedHeap ==
    [][(last'.op = "post_process" /\ ~panicked') =>
        \A i \in 1..Len(completed) :
            /\ is_some(completed'[i].heap) <=> is_some(completed[i].heap)
            /\ is_some(completed'[i].heap) =>
                   unwrap(completed'[i].heap).net_heap =
                       ClampAtZero(unwrap(completed[i].heap).total_heap
                                   - SumTotalHeap(Contained(i)))
            /\ (\E j \in Contained(i) : ~is_some(completed[j].heap)) =>
                   completed'[i].net_cu =
                       ClampAtZero(completed[i].total_cu - SumTotalCu(Contained(i)))
    ]_vars

\* Relations between the sequence intervals of completed[i] and completed[j].
Disjoint(i, j) ==
    \/ completed[i].end_sequence < completed[j].start_sequence
    \/ completed[j].end_sequence < completed[i].start_sequence
PartlyOverlap(i, j) ==
    /\ completed[i].start_sequence < completed[j].start_sequence
    /\ completed[j].start_sequence < completed[i].end_sequence
    /\ completed[i].end_sequence < completed[j].end_sequence

\* C20: the sequence intervals of two completed entries with the same id are
\* disjoint or one lies strictly inside the other; they never partly overlap
\* (start1 < start2 < end1 < end2).
C20_SameIdSectionsNestOrAreDisjoint ==
    \A i, j \in 1..Len(completed) :
        (i /= j /\ completed[i].id = completed[j].id) =>
            /\ Disjoint(i, j) \/ i \in Contained(j) \/ j \in Contained(i)
            /\ ~PartlyOverlap(i, j)

\* Two sections with distinct ids partly overlap: the one opened first was
\* closed first.
C20_Witness ==
    \E i, j \in 1..Len(completed) :
        /\ completed[i].id /= completed[j].id
        /\ PartlyOverlap(i, j)

\* The net fields of completed[i] are what post_process computes from the list
\* as it is now: total minus the u64 sum of the totals of the entries it
\* contains, clamped at zero.
NetIsCurrent(i) ==
    /\ completed[i].net_cu =
           ClampAtZero(completed[i].total_cu
                       - (SumTotalCu(Contained(i)) % U64_MODULUS))
    /\ is_some(completed[i].heap) =>
           unwrap(completed[i].heap).net_heap =
               ClampAtZero(unwrap(completed[i].heap).total_heap
                           - (SumTotalHeap(Contained(i)) % U64_MODULUS))

\* C21: a successful end gives its entry an end_sequence above that of every
\* entry completed before and leaves the set of entries contained in each of
\* those as it was; every start, end and post_process leaves net fields that
\* are current in place and current, and a post_process that returns leaves
\* the net fields of every entry current.
C21_ContainedSetFixedAtCompletion ==
    [][/\ EndOkStep =>
           \A i \in 1..Len(completed) :
               /\ completed'[i].end_sequence
                      < completed'[Len(completed')].end_sequence
               /\ Len(completed') \notin Contained(i)'
               /\ Contained(i)' = Contained(i)
       /\ last'.op \in {"start", "end", "post_process"} =>
           \A i \in 1..Len(completed) :
               NetIsCurrent(i) =>
                   /\ NetIsCurrent(i)'
                   /\ completed'[i].net_cu = completed[i].net_cu
                   /\ completed'[i].heap = completed[i].heap
       /\ (last'.op = "post_process" /\ ~panicked') =>
           \A i \in 1..Len(completed') : NetIsCurrent(i)'
    ]_vars

\* A section was completed after post_process had set, below its total, the
\* net_cu of an entry that contains another: that net is in place and
\* current, while the new entry, which consumed budget, has no net yet.
C21_Witness ==
    /\ last.op = "end" /\ last.result.ok
    /\ completed[Len(completed)].total_cu > 0
    /\ completed[Len(completed)].net_cu = 0
    /\ \E i \in 1..(Len(completed) - 1) :
          /\ Contained(i) /= {}
          /\ NetIsCurrent(i)
          /\ completed[i].net_cu > 0
          /\ completed[i].net_cu < completed[i].total_cu
          /\ completed[i].end_sequence
                 < completed[Len(completed)].start_sequence

\* The sum of net_cu over the entries of S.
RECURSIVE SumNetCu(_)
SumNetCu(S) ==
    IF S = {} THEN 0
    ELSE LET j == CHOOSE k \in S : TRUE
         IN completed[j].net_cu + SumNetCu(S \ {j})

\* The budget passed to the recorded starts and ends never increased.
BudgetNeverIncreased ==
    \A k \in 1..(Len(history) - 1) :
        history[k].current_cu >= history[k + 1].current_cu

\* Every end closed the top of the stack: no two completed sections partly
\* overlap.
ProperlyNested ==
    \A i, j \in 1..Len(completed) : ~PartlyOverlap(i, j)

\* completed[o] contains every other completed entry.
Outermost(o) == \A j \in 1..Len(completed) : j /= o => j \in Contained(o)

\* C22: when post_process has returned for a session whose budgets never
\* increased, whose sections are properly nested and all closed, with a
\* single outermost section, and in which the totals contained in any entry
\* add up within the u64 range, the sum of net_cu over all completed entries
\* is the total_cu of the outermost section.
C22_NetCuSumsToOutermostTotal ==
    (/\ PostProcessReturned
     /\ active_stack = <<>>
     /\ BudgetNeverIncreased
     /\ ProperlyNested
     /\ \A i \in 1..Len(completed) : SumTotalCu(Contained(i)) <= U64_MAX) =>
        \A o \in 1..Len(completed) :
            Outermost(o) => SumNetCu(1..Len(completed)) = completed[o].total_cu

====
